---- MODULE Spec2Model ----
(***************************************************************************)
(* NTSM container: the migration tool's writer (createHeader,              *)
(* convertToNTSM), the decoder (Decode) and the aeno adapter (LoadObject). *)
(* Files and streams are sequences of bytes (0..255); every multi-byte     *)
(* integer is little-endian, as encoding/binary is used with LittleEndian. *)
(***************************************************************************)
EXTENDS Integers, Sequences, FiniteSets, TLC

VARIABLES pc, srcPath, glbIn, header, convErr, file, made, stream, pos, res, loaded

\* processFiles: the position of the calling goroutine (ppc), its arguments,
\* the tasks channel, the spawn loop's i, the WaitGroup, each worker's position
\* and locals, the mutex holder (0 = unlocked), the counter struct, the
\* returned pair, and for each file the workers that passed it to convertToNTSM
VARIABLES ppc, nfiles, concurrency, tasks, spawned, wg, wpc, wfile, werr, wtmp,
          mutex, counter, ret, handledBy

codecVars == <<pc, srcPath, glbIn, header, convErr, file, made, stream, pos, res, loaded>>

poolVars == <<ppc, nfiles, concurrency, tasks, spawned, wg, wpc, wfile, werr, wtmp,
              mutex, counter, ret, handledBy>>

vars == <<codecVars, poolVars>>

(***************************************************************************)
(* Bounds of the model.                                                    *)
(***************************************************************************)
\* item names longer than the 127-byte limit go up to 127 + MaxOver bytes
MaxOver == 2
\* source GLB blobs of every length 0..MaxSmallGLB, plus whole 256-byte pages
MaxSmallGLB == 2
MaxGLBPages == 1
\* emitter records present in a stream handed to Decode: 0..MaxRecords
MaxRecords == 2
\* processFiles: lists of 0..MaxFiles files, concurrency -1..MaxWorkers
MaxFiles == 2
MaxWorkers == 3

(***************************************************************************)
(* Program constants.                                                      *)
(***************************************************************************)
Magic == <<78, 84, 83, 77>>          \* "NTSM"
Version == 1
HeaderSize == 192
PaddingBase == 192                   \* the 192 of make([]byte, HeaderSize-192)
NameSize == 128                      \* Name [128]byte
NameLimit == 127                     \* if len(name) > 127 { name = name[:127] }
EmitterDivisor == 128                \* count := hdr.ParticleSize / 128
FloatCount == 26                     \* float32 fields of ParticleEmitter

Half == 2^16

(***************************************************************************)
(* Byte helpers: encoding/binary with binary.LittleEndian.                 *)
(***************************************************************************)
Zeros(n) == [i \in 1..n |-> 0]

\* A uint32 is kept as its two 16-bit halves, value = hi * 2^16 + lo, so that
\* every value up to 2^32 - 1 is represented exactly (TLC's integers
\* stop at 2^31 - 1).

\* uint32(x) for 0 <= x < 2^31 (every length and constant of the model)
Uint32(x) == [hi |-> (x \div Half) % Half, lo |-> x % Half]

\* a + b on uint32, wrapping at 2^32
Add32(a, b) ==
    LET lo == a.lo + b.lo
    IN  [hi |-> (a.hi + b.hi + lo \div Half) % Half, lo |-> lo % Half]

\* n < u, for an int n >= 0 and a uint32 u
LessThan32(n, u) == u.hi >= Half \div 2 \/ n < u.hi * Half + u.lo

\* int(u), for a uint32 u below 2^31
ToInt(u) == u.hi * Half + u.lo

\* u / d on uint32, for a divisor d of 2^16
Div32(u, d) == u.hi * (Half \div d) + u.lo \div d

\* binary.LittleEndian.PutUint32
LE32(u) == << u.lo % 256, u.lo \div 256, u.hi % 256, u.hi \div 256 >>

\* binary.LittleEndian.Uint32 of the 4 bytes of s that start at index i (1-based)
U32At(s, i) == [hi |-> s[i+2] + 256 * s[i+3], lo |-> s[i] + 256 * s[i+1]]

\* int32(u): the two's complement reading of a uint32 bit pattern
ToInt32(u) == IF u.hi >= Half \div 2 THEN (u.hi - Half) * Half + u.lo ELSE u.hi * Half + u.lo

\* the built-in copy(dst[:], src) into a zeroed array of n bytes
CopyInto(n, src) == [i \in 1..n |-> IF i <= Len(src) THEN src[i] ELSE 0]

Max(S) == CHOOSE x \in S : \A y \in S : y <= x

Min(a, b) == IF a <= b THEN a ELSE b

(***************************************************************************)
(* strings and path/filepath, on byte sequences.                           *)
(***************************************************************************)
Slash == 47
Dot == 46

\* strings.HasSuffix
HasSuffix(s, suf) ==
    /\ Len(s) >= Len(suf)
    /\ SubSeq(s, Len(s) - Len(suf) + 1, Len(s)) = suf

\* strings.TrimSuffix
TrimSuffix(s, suf) == IF HasSuffix(s, suf) THEN SubSeq(s, 1, Len(s) - Len(suf)) ELSE s

\* filepath.Base: trailing separators removed, then the last element;
\* "." for the empty path and "/" for a path of separators only
Base(path) ==
    IF path = <<>> THEN <<Dot>>
    ELSE LET keep == {i \in 1..Len(path) : path[i] # Slash}
         IN  IF keep = {} THEN <<Slash>>
             ELSE LET last == Max(keep)
                      seps == {i \in 1..last : path[i] = Slash}
                      first == IF seps = {} THEN 1 ELSE Max(seps) + 1
                  IN  SubSeq(path, first, last)

\* filepath.Ext: the suffix beginning at the final dot of the final element
Ext(path) ==
    LET dots == {i \in 1..Len(path) :
                    /\ path[i] = Dot
                    /\ \A j \in i..Len(path) : path[j] # Slash}
    IN  IF dots = {} THEN <<>> ELSE SubSeq(path, Max(dots), Len(path))

ExtGLB == <<46, 103, 108, 98>>       \* ".glb"
ExtOBJ == <<46, 111, 98, 106>>       \* ".obj"

(***************************************************************************)
(* The writer: createHeader and the bytes binary.Write makes of NTSMHeader. *)
(***************************************************************************)
\* (mutant) the name cut to the size of the slot instead of one byte less
TruncateNameToSlot(name) == IF Len(name) > NameSize THEN SubSeq(name, 1, NameSize) ELSE name

\* name := []byte(itemID); if len(name) > 127 { name = name[:127] }
TruncateName(name) == IF Len(name) > NameLimit THEN SubSeq(name, 1, NameLimit) ELSE name

createHeader(path, glbData) ==
    LET base == Base(path)
        itemID == TrimSuffix(base, Ext(base))
    IN  [ Magic          |-> CopyInto(4, Magic),
          Version        |-> Uint32(1),
          Name           |-> CopyInto(NameSize, TruncateName(itemID)),
          Flags          |-> 0,
          GLBOffset      |-> Uint32(HeaderSize),
          GLBSize        |-> Uint32(Len(glbData)),
          ParticleOffset |-> Add32(Uint32(HeaderSize), Uint32(Len(glbData))),
          ParticleSize   |-> Uint32(0),
          TextureCount   |-> Uint32(0),
          TextureOffset  |-> Uint32(0) ]

\* binary.Write(out, binary.LittleEndian, header): the fields of NTSMHeader in
\* declaration order, the blank [3]byte written as zeros, nothing else
WriteNTSMHeader(h) ==
    h.Magic \o LE32(h.Version) \o h.Name \o <<h.Flags>> \o Zeros(3)
      \o LE32(h.GLBOffset) \o LE32(h.GLBSize)
      \o LE32(h.ParticleOffset) \o LE32(h.ParticleSize)
      \o LE32(h.TextureCount) \o LE32(h.TextureOffset)

\* padding := make([]byte, HeaderSize-192)
WriterPadding == Zeros(HeaderSize - PaddingBase)

\* the three writes of convertToNTSM, in order
NTSMFileBytes(h, glbData) == WriteNTSMHeader(h) \o WriterPadding \o glbData

(***************************************************************************)
(* The decoder.  binary.Read fills a struct from exactly the bytes of its  *)
(* fields, in declaration order, with no padding between them.             *)
(***************************************************************************)
\* binary.Size(Header{}): Magic, Version, Name, Flags and four uint32
HeaderWireSize == 4 + 4 + NameSize + 1 + 4 * 4

\* binary.Size(ParticleEmitter{}): the float32 fields, TextureIndex,
\* BlendMode, Loop and the blank [2]byte
EmitterWireSize == 4 * FloatCount + 4 + 1 + 1 + 2

\* the error of io.ReadFull that finds `avail` bytes where it needs `need`
ReadFullErr(avail, need) ==
    IF avail >= need THEN "nil"
    ELSE IF avail = 0 THEN "EOF" ELSE "unexpected EOF"

\* binary.Read(r, binary.LittleEndian, &hdr) on the first HeaderWireSize bytes
ReadHeader(s) ==
    [ Magic          |-> SubSeq(s, 1, 4),
      Version        |-> U32At(s, 5),
      Name           |-> SubSeq(s, 9, 8 + NameSize),
      Flags          |-> s[9 + NameSize],
      GLBOffset      |-> U32At(s, 10 + NameSize),
      GLBSize        |-> U32At(s, 14 + NameSize),
      ParticleOffset |-> U32At(s, 18 + NameSize),
      ParticleSize   |-> U32At(s, 22 + NameSize) ]

\* binary.Read(r, binary.LittleEndian, &emitters[i]) on EmitterWireSize bytes;
\* a float32 is kept as its bit pattern
ReadEmitter(b) ==
    LET f(k) == SubSeq(b, 4 * k - 3, 4 * k)
    IN  [ Position         |-> <<f(1), f(2), f(3)>>,
          Direction        |-> <<f(4), f(5), f(6)>>,
          SpreadAngle      |-> f(7),
          EmissionRate     |-> f(8),
          ParticleLifetime |-> f(9),
          StartSize        |-> f(10),
          EndSize          |-> f(11),
          StartColor       |-> <<f(12), f(13), f(14), f(15)>>,
          EndColor         |-> <<f(16), f(17), f(18), f(19)>>,
          VelocityMin      |-> <<f(20), f(21), f(22)>>,
          VelocityMax      |-> <<f(23), f(24), f(25)>>,
          Gravity          |-> f(26),
          TextureIndex     |-> ToInt32(U32At(b, 4 * FloatCount + 1)),
          BlendMode        |-> b[4 * FloatCount + 5],
          Loop             |-> b[4 * FloatCount + 6] ]

\* (mutant) the particle section read whenever ParticleSize > 0
ReadsParticlesWithoutFlag(hdr) == LessThan32(0, hdr.ParticleSize)

\* if hdr.ParticleSize > 0 && (hdr.Flags&0x01) != 0
ReadsParticles(hdr) == LessThan32(0, hdr.ParticleSize) /\ hdr.Flags % 2 = 1

\* count := hdr.ParticleSize / 128
EmitterCount(hdr) == Div32(hdr.ParticleSize, EmitterDivisor)

\* (mutant) the GLB slice handed back beside the error
DecodeFailureKeepingGLB(err, at) ==
    [ err |-> err, hdr |-> <<>>, glbNil |-> FALSE, glb |-> <<>>,
      emittersNil |-> TRUE, emitters |-> <<>>, pos |-> at ]

\* return nil, nil, nil, err; `at` is where the reader then stands
DecodeFailure(err, at) ==
    [ err |-> err, hdr |-> <<>>, glbNil |-> TRUE, glb |-> <<>>,
      emittersNil |-> TRUE, emitters |-> <<>>, pos |-> at ]

\* Decode(r) for a reader over the bytes s.  hdr is <<>> for a nil pointer
\* and <<h>> otherwise; glbNil and emittersNil tell a nil slice from an
\* empty one; pos is the number of bytes taken from the reader.
Decode(s) ==
    LET n == Len(s) IN
    IF n < HeaderWireSize THEN DecodeFailure(ReadFullErr(n, HeaderWireSize), n)
    ELSE
      LET hdr == ReadHeader(s)
          \* padding := make([]byte, HeaderSize-192); io.ReadFull(r, padding)
          p2 == Min(n, HeaderWireSize + (HeaderSize - PaddingBase))
          availGLB == n - p2
      IN
      IF LessThan32(availGLB, hdr.GLBSize)
      THEN DecodeFailure(IF availGLB = 0 THEN "EOF" ELSE "unexpected EOF", n)
      ELSE
        LET glbSize == ToInt(hdr.GLBSize)
            glbData == SubSeq(s, p2 + 1, p2 + glbSize)
            p3 == p2 + glbSize
        IN
        IF ReadsParticles(hdr)
        THEN
          LET count == EmitterCount(hdr)
              \* records the stream still holds in full
              whole == (n - p3) \div EmitterWireSize
          IN
          IF whole < count
          THEN DecodeFailure(ReadFullErr(n - p3 - whole * EmitterWireSize, EmitterWireSize), n)
          ELSE [ err |-> "nil", hdr |-> <<hdr>>, glbNil |-> FALSE, glb |-> glbData,
                 emittersNil |-> FALSE,
                 emitters |-> [i \in 1..count |->
                     ReadEmitter(SubSeq(s, p3 + (i - 1) * EmitterWireSize + 1,
                                           p3 + i * EmitterWireSize))],
                 pos |-> p3 + count * EmitterWireSize ]
        ELSE [ err |-> "nil", hdr |-> <<hdr>>, glbNil |-> FALSE, glb |-> glbData,
               emittersNil |-> TRUE, emitters |-> <<>>, pos |-> p3 ]

(***************************************************************************)
(* Inputs.                                                                 *)
(***************************************************************************)
GLBMagic == <<103, 108, 84, 70>>     \* "glTF"
SwordName == <<115, 119, 111, 114, 100>>   \* "sword"
SrcDir == <<117, 112, 47>>           \* "up/"

\* an item name of n letters, a..z repeating
Letters(n) == [i \in 1..n |-> 97 + ((i - 1) % 26)]

\* a blob of n bytes; it starts with "glTF" when good
Blob(n, good) ==
    [i \in 1..n |-> IF good /\ i <= 4 THEN GLBMagic[i] ELSE 1 + (i % 251)]

NameLens == {0, 1, 5} \cup ((NameLimit - 1)..(NameLimit + MaxOver))

\* the file names findSourceFiles can return: .obj and .glb files
Stems == {Letters(n) : n \in NameLens} \cup {<<97, Dot, 98>>}
SourcePaths == {SrcDir \o stem \o ext : stem \in Stems, ext \in {ExtGLB, ExtOBJ}}

GLBLens == (0..MaxSmallGLB) \cup {12} \cup {256 * k : k \in 1..MaxGLBPages}
SourceBlobs == {Blob(n, good) : n \in GLBLens, good \in BOOLEAN}

(***************************************************************************)
(* Streams from other producers, handed to Decode as any io.Reader can be. *)
(* "documented" is the layout of the format document (192-byte header,     *)
(* 128-byte emitter records); "packed" is the layout of the Header and     *)
(* ParticleEmitter structs as binary.Read takes them.                      *)
(***************************************************************************)
\* int32 x as its uint32 bit pattern
FromInt32(x) ==
    IF x >= 0 THEN Uint32(x)
    ELSE [hi |-> Half - 1 - ((-x - 1) \div Half), lo |-> Half - 1 - ((-x - 1) % Half)]

\* Header Details table: fields at offsets 0, 4, 8, 136, 137, 140 .. 160,
\* zero-filled to 192 bytes
DocumentedHeader(f) ==
    LET fields == f.magic \o LE32(Uint32(f.version)) \o CopyInto(NameSize, f.name)
                    \o <<f.flags>> \o Zeros(3)
                    \o LE32(Uint32(HeaderSize)) \o LE32(Uint32(f.glbSize))
                    \o LE32(Uint32(HeaderSize + f.glbSize)) \o LE32(Uint32(f.particleSize))
                    \o LE32(Uint32(0)) \o LE32(Uint32(0))
    IN  fields \o Zeros(HeaderSize - Len(fields))

\* the same fields laid out as the Header struct of the decoder
PackedHeader(f) ==
    f.magic \o LE32(Uint32(f.version)) \o CopyInto(NameSize, f.name) \o <<f.flags>>
      \o LE32(Uint32(HeaderSize)) \o LE32(Uint32(f.glbSize))
      \o LE32(Uint32(HeaderSize + f.glbSize)) \o LE32(Uint32(f.particleSize))

\* the i-th emitter record of a stream: the float fields, TextureIndex,
\* BlendMode, Loop, two zero bytes, zero-filled to size bytes
EmitterRecord(i, tex, size) ==
    LET floats == [k \in 1..(4 * FloatCount) |-> (16 * i + k) % 256]
        fields == floats \o LE32(FromInt32(tex)) \o <<(i - 1) % 2, i % 2>> \o Zeros(2)
    IN  fields \o Zeros(size - Len(fields))

RECURSIVE Records(_, _, _)
Records(n, tex, size) ==
    IF n = 0 THEN <<>> ELSE Records(n - 1, tex, size) \o EmitterRecord(n, tex, size)

DocumentedEmitterSize == 128

StreamBytes(f) ==
    LET hdr == IF f.layout = "documented" THEN DocumentedHeader(f) ELSE PackedHeader(f)
        size == IF f.layout = "documented" THEN DocumentedEmitterSize ELSE EmitterWireSize
        all == hdr \o Blob(f.glbSize, f.glbGood) \o Records(f.nrec, f.tex, size)
    IN  SubSeq(all, 1, Len(all) - f.cut)

BadMagics == {Zeros(4), <<71, 76, 84, 70>>}    \* four zero bytes, "GLTF"
HeaderKinds == {<<Magic, 1>>, <<Magic, 0>>, <<Magic, 2>>} \cup {<<m, 1>> : m \in BadMagics}
DeclaredGLBSizes == {0, 4, 12, 1024}
DeclaredParticleSizes == {0, 130} \cup {128 * k : k \in 1..MaxRecords}

Producers ==
    { [layout |-> l, magic |-> hk[1], version |-> hk[2], name |-> SwordName,
       flags |-> fl, glbSize |-> gs, glbGood |-> good, particleSize |-> ps,
       nrec |-> nr, tex |-> tex, cut |-> cut] :
        l \in {"documented", "packed"}, hk \in HeaderKinds, fl \in {0, 1},
        gs \in DeclaredGLBSizes, good \in BOOLEAN, ps \in DeclaredParticleSizes,
        nr \in 0..MaxRecords, tex \in {-1, 2}, cut \in {0, 1} }

\* what can go wrong in convertToNTSM, in the order of its error returns
Faults == {"none", "read", "convert", "mkdir", "create", "header write", "glb write"}

NoHeader == <<>>
NoMade == [layout |-> "none"]
NoResult == [err |-> "none", hdr |-> <<>>, glbNil |-> TRUE, glb |-> <<>>,
             emittersNil |-> TRUE, emitters |-> <<>>]

\* the four values Decode returns
Returns(d) == [err |-> d.err, hdr |-> d.hdr, glbNil |-> d.glbNil, glb |-> d.glb,
               emittersNil |-> d.emittersNil, emitters |-> d.emitters]
NoLoaded == [err |-> "none", objNil |-> TRUE, Name |-> <<>>, Emitters |-> <<>>, GLBData |-> <<>>]

Workers == 1..MaxWorkers

\* before processFiles is called
PoolIdle ==
    /\ ppc = "idle"
    /\ nfiles = 0
    /\ concurrency = 0
    /\ tasks = <<>>
    /\ spawned = 0
    /\ wg = 0
    /\ wpc = [w \in Workers |-> "none"]
    /\ wfile = [w \in Workers |-> 0]
    /\ werr = [w \in Workers |-> FALSE]
    /\ wtmp = [w \in Workers |-> 0]
    /\ mutex = 0
    /\ counter = [success |-> 0, failed |-> 0]
    /\ ret = [success |-> 0, failed |-> 0]
    /\ handledBy = [f \in 1..MaxFiles |-> <<>>]

Init ==
    /\ PoolIdle
    /\ pc = "idle"
    /\ srcPath = <<>>
    /\ glbIn = <<>>
    /\ header = NoHeader
    /\ convErr = "none"
    /\ file = [exists |-> FALSE, bytes |-> <<>>]
    /\ made = NoMade
    /\ stream = <<>>
    /\ pos = 0
    /\ res = NoResult
    /\ loaded = NoLoaded

(***************************************************************************)
(* convertToNTSM(srcPath, dstPath, dryRun): glbData is the source file's   *)
(* bytes for a .glb and the converter's output for an .obj.                *)
(***************************************************************************)
convertToNTSM(path, glbData, dryRun, fault) ==
    /\ pc = "idle"
    /\ fault = "convert" => HasSuffix(path, ExtOBJ)
    /\ dryRun => fault \in {"none", "read", "convert"}
    /\ srcPath' = path
    /\ glbIn' = glbData
    /\ pc' = "converted"
    /\ IF fault \in {"read", "convert"}
       THEN /\ header' = NoHeader
            /\ convErr' = fault
            /\ file' = file
       ELSE LET h == createHeader(path, glbData) IN
            /\ header' = <<h>>
            /\ IF dryRun
               THEN convErr' = "nil" /\ file' = file
               ELSE CASE fault \in {"mkdir", "create"} ->
                           convErr' = fault /\ file' = file
                      [] fault = "header write" ->
                           convErr' = fault /\ file' = [exists |-> TRUE, bytes |-> <<>>]
                      [] fault = "glb write" ->
                           /\ convErr' = fault
                           /\ file' = [exists |-> TRUE,
                                       bytes |-> WriteNTSMHeader(h) \o WriterPadding]
                      [] OTHER ->
                           /\ convErr' = "nil"
                           /\ file' = [exists |-> TRUE, bytes |-> NTSMFileBytes(h, glbData)]
    /\ UNCHANGED <<made, stream, pos, res, loaded>>
    /\ UNCHANGED poolVars

\* os.Open of the .ntsm file the tool wrote (examples/basic_load.go)
OpenWritten ==
    /\ pc = "converted"
    /\ file.exists
    /\ stream' = file.bytes
    /\ pos' = 0
    /\ pc' = "opened"
    /\ UNCHANGED <<srcPath, glbIn, header, convErr, file, made, res, loaded>>
    /\ UNCHANGED poolVars

\* os.Open of an .ntsm file that some other producer made
OpenStream(f) ==
    /\ pc = "idle"
    /\ f.glbSize = 0 => f.glbGood
    /\ f.nrec = 0 => f.tex = -1
    /\ made' = f
    /\ stream' = StreamBytes(f)
    /\ pos' = 0
    /\ pc' = "opened"
    /\ UNCHANGED <<srcPath, glbIn, header, convErr, file, res, loaded>>
    /\ UNCHANGED poolVars

\* ntsm.Decode(r) called directly
DecodeStream ==
    /\ pc = "opened"
    /\ LET d == Decode(stream) IN
         /\ res' = Returns(d)
         /\ pos' = d.pos
    /\ pc' = "decoded"
    /\ UNCHANGED <<srcPath, glbIn, header, convErr, file, made, stream, loaded>>
    /\ UNCHANGED poolVars

\* LoadObject(r); gltfOk is the outcome of aeno.LoadGLTFFromReader
LoadObject(gltfOk) ==
    /\ pc = "opened"
    /\ LET d == Decode(stream) IN
         /\ res' = Returns(d)
         /\ pos' = d.pos
         /\ IF d.err # "nil"
            THEN loaded' = [NoLoaded EXCEPT !.err = d.err]
            ELSE LET itemName == d.hdr[1].Name
                     cut == SubSeq(itemName, 1, Len(itemName) - 1)
                 IN  IF ~gltfOk
                     THEN loaded' = [NoLoaded EXCEPT !.err = "gltf"]
                     ELSE loaded' = [err |-> "nil", objNil |-> FALSE, Name |-> cut,
                                     Emitters |-> d.emitters, GLBData |-> d.glb]
    /\ pc' = "loaded"
    /\ UNCHANGED <<srcPath, glbIn, header, convErr, file, made, stream>>
    /\ UNCHANGED poolVars

Next ==
    \/ \E path \in SourcePaths, glbData \in SourceBlobs, dryRun \in BOOLEAN, fault \in Faults :
          convertToNTSM(path, glbData, dryRun, fault)
    \/ OpenWritten
    \/ \E f \in Producers : OpenStream(f)
    \/ DecodeStream
    \/ \E gltfOk \in BOOLEAN : LoadObject(gltfOk)

Spec == Init /\ [][Next]_vars

(***************************************************************************)
(* processFiles(files, srcDir, dstDir, concurrency, dryRun, verbose).      *)
(* Files are numbered 1..nfiles in list order.                             *)
(***************************************************************************)
\* tasks := make(chan string, len(files)); every file sent; close(tasks)
processFiles(n, c) ==
    /\ ppc = "idle"
    /\ nfiles' = n
    /\ concurrency' = c
    /\ tasks' = [i \in 1..n |-> i]
    /\ spawned' = 0
    /\ ppc' = "spawn"
    /\ UNCHANGED <<wg, wpc, wfile, werr, wtmp, mutex, counter, ret, handledBy>>
    /\ UNCHANGED codecVars

\* one turn of for i := 0; i < concurrency; i++ { wg.Add(1); go func() ... }
Spawn ==
    /\ ppc = "spawn"
    /\ spawned < concurrency
    /\ wg' = wg + 1
    /\ wpc' = [wpc EXCEPT ![spawned + 1] = "range"]
    /\ spawned' = spawned + 1
    /\ UNCHANGED <<ppc, nfiles, concurrency, tasks, wfile, werr, wtmp, mutex, counter,
                   ret, handledBy>>
    /\ UNCHANGED codecVars

\* for file := range tasks: a file is received
Receive(w) ==
    /\ wpc[w] = "range"
    /\ tasks # <<>>
    /\ wfile' = [wfile EXCEPT ![w] = Head(tasks)]
    /\ tasks' = Tail(tasks)
    /\ wpc' = [wpc EXCEPT ![w] = "convert"]
    /\ UNCHANGED <<ppc, nfiles, concurrency, spawned, wg, werr, wtmp, mutex, counter,
                   ret, handledBy>>
    /\ UNCHANGED codecVars

\* for file := range tasks: the closed channel is empty; defer wg.Done()
WorkerExit(w) ==
    /\ wpc[w] = "range"
    /\ tasks = <<>>
    /\ wg' = wg - 1
    /\ wpc' = [wpc EXCEPT ![w] = "done"]
    /\ UNCHANGED <<ppc, nfiles, concurrency, tasks, spawned, wfile, werr, wtmp, mutex,
                   counter, ret, handledBy>>
    /\ UNCHANGED codecVars

\* err := convertToNTSM(file, dstPath, dryRun, verbose)
Convert(w, failedConv) ==
    /\ wpc[w] = "convert"
    /\ handledBy' = [handledBy EXCEPT ![wfile[w]] = Append(@, w)]
    /\ werr' = [werr EXCEPT ![w] = failedConv]
    /\ wpc' = [wpc EXCEPT ![w] = "lock"]
    /\ UNCHANGED <<ppc, nfiles, concurrency, tasks, spawned, wg, wfile, wtmp, mutex,
                   counter, ret>>
    /\ UNCHANGED codecVars

\* counter.Lock()
Lock(w) ==
    /\ wpc[w] = "lock"
    /\ mutex = 0
    /\ mutex' = w
    /\ wpc' = [wpc EXCEPT ![w] = "load"]
    /\ UNCHANGED <<ppc, nfiles, concurrency, tasks, spawned, wg, wfile, werr, wtmp,
                   counter, ret, handledBy>>
    /\ UNCHANGED codecVars

\* counter.failed++ / counter.success++: the read
Load(w) ==
    /\ wpc[w] = "load"
    /\ wtmp' = [wtmp EXCEPT ![w] = IF werr[w] THEN counter.failed ELSE counter.success]
    /\ wpc' = [wpc EXCEPT ![w] = "store"]
    /\ UNCHANGED <<ppc, nfiles, concurrency, tasks, spawned, wg, wfile, werr, mutex,
                   counter, ret, handledBy>>
    /\ UNCHANGED codecVars

\* counter.failed++ / counter.success++: the write
Store(w) ==
    /\ wpc[w] = "store"
    /\ counter' = IF werr[w] THEN [counter EXCEPT !.failed = wtmp[w] + 1]
                            ELSE [counter EXCEPT !.success = wtmp[w] + 1]
    /\ wpc' = [wpc EXCEPT ![w] = "unlock"]
    /\ UNCHANGED <<ppc, nfiles, concurrency, tasks, spawned, wg, wfile, werr, wtmp,
                   mutex, ret, handledBy>>
    /\ UNCHANGED codecVars

\* counter.Unlock(), and back to the range loop
Unlock(w) ==
    /\ wpc[w] = "unlock"
    /\ mutex' = 0
    /\ wpc' = [wpc EXCEPT ![w] = "range"]
    /\ UNCHANGED <<ppc, nfiles, concurrency, tasks, spawned, wg, wfile, werr, wtmp,
                   counter, ret, handledBy>>
    /\ UNCHANGED codecVars

\* the spawn loop is over; wg.Wait(); return counter.success, counter.failed
WaitAndReturn ==
    /\ ppc = "spawn"
    /\ ~(spawned < concurrency)
    /\ wg = 0
    /\ ret' = [success |-> counter.success, failed |-> counter.failed]
    /\ ppc' = "returned"
    /\ UNCHANGED <<nfiles, concurrency, tasks, spawned, wg, wpc, wfile, werr, wtmp,
                   mutex, counter, handledBy>>
    /\ UNCHANGED codecVars

PoolNext ==
    \/ \E n \in 0..MaxFiles, c \in (-1)..MaxWorkers : processFiles(n, c)
    \/ Spawn
    \/ \E w \in Workers : Receive(w)
    \/ \E w \in Workers : WorkerExit(w)
    \/ \E w \in Workers, failedConv \in BOOLEAN : Convert(w, failedConv)
    \/ \E w \in Workers : Lock(w)
    \/ \E w \in Workers : Load(w)
    \/ \E w \in Workers : Store(w)
    \/ \E w \in Workers : Unlock(w)
    \/ WaitAndReturn

SpecPool == Init /\ [][PoolNext]_vars

(***************************************************************************)
(* Properties.                                                             *)
(***************************************************************************)
\* Decode (directly or inside LoadObject) has returned
Returned == pc \in {"decoded", "loaded"}

\* the stream is a file that convertToNTSM wrote in full
WrittenInFull == made = NoMade /\ convErr = "nil" /\ file.exists /\ stream = file.bytes

\* the header as Decode reads it off the stream
SeenHeader == ReadHeader(stream)

\* C1: Decode of the bytes convertToNTSM wrote succeeds and gives back the
\* header fields createHeader set, the GLB blob byte for byte, and no emitters.
C1_RoundTrip ==
    (Returned /\ WrittenInFull) =>
        /\ res.err = "nil"
        /\ res.hdr # <<>>
        /\ res.hdr[1].Magic = Magic
        /\ res.hdr[1].Magic = header[1].Magic
        /\ res.hdr[1].Version = header[1].Version
        /\ res.hdr[1].Name = header[1].Name
        /\ res.hdr[1].Flags = header[1].Flags
        /\ res.hdr[1].GLBOffset = header[1].GLBOffset
        /\ res.hdr[1].GLBSize = header[1].GLBSize
        /\ res.hdr[1].ParticleOffset = header[1].ParticleOffset
        /\ res.hdr[1].ParticleSize = header[1].ParticleSize
        /\ res.glb = glbIn
        /\ Len(res.emitters) = 0

\* C2: in a file convertToNTSM wrote, the GLB blob starts at offset 192, which
\* is the stored GLBOffset, and the file is 192 + GLBSize bytes long, which is
\* the stored ParticleOffset.
C2_HeaderIs192Bytes ==
    (pc # "idle" /\ convErr = "nil" /\ file.exists) =>
        LET b == file.bytes IN
        /\ Len(b) = 192 + Len(glbIn)
        /\ SubSeq(b, 193, Len(b)) = glbIn
        /\ U32At(b, 141) = Uint32(192)
        /\ U32At(b, 145) = Uint32(Len(glbIn))
        /\ U32At(b, 149) = Uint32(Len(b))

\* C3: a stream that does not start with "NTSM" is rejected with an error and
\* nothing parsed from it is returned.
C3_BadMagicRejected ==
    (Returned /\ (Len(stream) < 4 \/ SubSeq(stream, 1, 4) # Magic)) =>
        /\ res.err # "nil"
        /\ res.hdr = <<>> /\ res.glbNil /\ res.emittersNil

\* C4: a stream whose Version field is not 1 is rejected with an error and no
\* data is returned.
C4_BadVersionRejected ==
    (Returned /\ Len(stream) >= 8 /\ U32At(stream, 5) # Uint32(Version)) =>
        /\ res.err # "nil"
        /\ res.hdr = <<>> /\ res.glbNil /\ res.emittersNil

\* C5: with has_particles set and a ParticleSize that is not a multiple of 128,
\* Decode fails; it returns no emitter list.
C5_OddParticleSizeRejected ==
    (/\ Returned
     /\ Len(stream) >= HeaderWireSize
     /\ SeenHeader.Flags % 2 = 1
     /\ SeenHeader.ParticleSize.lo % 128 # 0) =>
        /\ res.err # "nil"
        /\ res.emittersNil

\* C6: with has_particles set and ParticleSize = 0, Decode rejects the file.
C6_FlagWithoutParticlesRejected ==
    (/\ Returned
     /\ Len(stream) >= HeaderWireSize
     /\ SeenHeader.Flags % 2 = 1
     /\ SeenHeader.ParticleSize = Uint32(0)) =>
        res.err # "nil"

\* C7: with flag bit 0 clear, whatever ParticleSize is, a Decode whose stream
\* holds the header and the GLB section succeeds with an empty emitter list
\* and has read nothing beyond the GLB section.
C7_NoFlagNoEmitters ==
    (/\ Returned
     /\ Len(stream) >= HeaderWireSize
     /\ SeenHeader.Flags % 2 = 0
     /\ ~LessThan32(Len(stream) - HeaderWireSize, SeenHeader.GLBSize)) =>
        /\ res.err = "nil"
        /\ Len(res.emitters) = 0
        /\ pos = HeaderWireSize + ToInt(SeenHeader.GLBSize)
        /\ pc = "loaded" /\ loaded.err = "nil" => Len(loaded.Emitters) = 0

\* C7 witness: flag clear, ParticleSize 128, an emitter record waiting in the
\* stream, and Decode returned without touching it.
C7_Witness ==
    /\ Returned
    /\ made.layout = "packed"
    /\ Len(stream) >= HeaderWireSize
    /\ SeenHeader.Flags % 2 = 0
    /\ SeenHeader.ParticleSize = Uint32(128)
    /\ made.nrec >= 1 /\ made.cut = 0
    /\ res.err = "nil"
    /\ Len(res.emitters) = 0
    /\ pos + made.nrec * EmitterWireSize = Len(stream)

\* C8: a GLBSize below 12, or a GLB section that does not start with "glTF",
\* is rejected and no GLB blob is returned.
C8_BadGLBRejected ==
    (/\ Returned
     /\ Len(stream) >= HeaderWireSize
     /\ \/ ~LessThan32(11, SeenHeader.GLBSize)
        \/ Len(stream) < HeaderWireSize + 4
        \/ SubSeq(stream, HeaderWireSize + 1, HeaderWireSize + 4) # GLBMagic) =>
        /\ res.err # "nil"
        /\ res.glbNil

\* the item name createHeader derives from the source path
ItemID == TrimSuffix(Base(srcPath), Ext(Base(srcPath)))

\* C9: the Name slot holds the first min(len, 127) bytes of the item name and
\* zeros after them, so its last byte is 0; a name longer than 127 bytes comes
\* back from Decode and LoadObject as its 127-byte prefix, not as the name.
C9_NameTruncated ==
    (pc # "idle" /\ header # NoHeader) =>
        LET slot == header[1].Name
            id == ItemID
            k == Min(Len(id), 127)
        IN  /\ Len(slot) = 128
            /\ SubSeq(slot, 1, k) = SubSeq(id, 1, k)
            /\ SubSeq(slot, k + 1, 128) = Zeros(128 - k)
            /\ slot[128] = 0
            /\ (Returned /\ WrittenInFull /\ res.err = "nil" /\ Len(id) > 127) =>
                 /\ res.hdr[1].Name = SubSeq(id, 1, 127) \o <<0>>
                 /\ SubSeq(res.hdr[1].Name, 1, 127) # id
                 /\ (pc = "loaded" /\ loaded.err = "nil") =>
                        /\ loaded.Name = SubSeq(id, 1, 127)
                        /\ loaded.Name # id

\* C9 witness: a 129-byte item name was written, and Decode returned a Name
\* slot holding the 127-byte prefix of it and a zero.
C9_Witness ==
    /\ pc = "decoded"
    /\ WrittenInFull
    /\ Len(ItemID) = 129
    /\ header[1].Name[127] # 0
    /\ header[1].Name[128] = 0
    /\ res.err = "nil"
    /\ res.hdr[1].Name = SubSeq(ItemID, 1, 127) \o <<0>>

\* C10: a file laid out as the header table documents, with has_particles set
\* and ParticleSize = 128 * n, decodes to the stored name, the GLBSize bytes of
\* the GLB section and n emitters with the stored signed TextureIndex.
C10_DocumentedFileDecodes ==
    (/\ Returned
     /\ made.layout = "documented"
     /\ made.magic = Magic /\ made.version = 1 /\ made.flags = 1
     /\ made.nrec >= 1 /\ made.particleSize = 128 * made.nrec
     /\ made.cut = 0) =>
        /\ res.err = "nil"
        /\ res.hdr[1].Name = CopyInto(128, made.name)
        /\ Len(res.glb) = made.glbSize
        /\ res.glb = SubSeq(stream, 193, 192 + made.glbSize)
        /\ Len(res.emitters) = made.nrec
        /\ \A i \in 1..made.nrec : res.emitters[i].TextureIndex = made.tex

\* C11: whenever Decode returns an error, the header, the GLB slice and the
\* emitter slice it returns are all nil, and LoadObject returns a nil object
\* with that error.
C11_FailsAtomically ==
    (Returned /\ res.err # "nil") =>
        /\ res.hdr = <<>>
        /\ res.glbNil /\ Len(res.glb) = 0
        /\ res.emittersNil /\ Len(res.emitters) = 0
        /\ pc = "loaded" => (loaded.objNil /\ loaded.err = res.err)

\* C11 witness: the header, the GLB section and the first emitter record were
\* read, the second record is missing, and LoadObject returned nil and the
\* error.
C11_Witness ==
    /\ pc = "loaded"
    /\ made.layout = "packed"
    /\ made.flags = 1 /\ made.particleSize = 256 /\ made.nrec = 1 /\ made.cut = 0
    /\ made.glbSize > 0
    /\ res.err = "EOF"
    /\ res.hdr = <<>> /\ res.glbNil /\ res.emittersNil
    /\ loaded.objNil

\* where the particle data starts for Decode: right after the GLB section
ParticleStart == HeaderWireSize + ToInt(SeenHeader.GLBSize)

\* C12: after a successful Decode with has_particles set and ParticleSize =
\* 128 * n, exactly ParticleSize bytes of particle data have been consumed and
\* emitter i comes from the 128 bytes that start 128 * i into the particle data.
C12_RecordIs128Bytes ==
    (/\ Returned
     /\ res.err = "nil"
     /\ SeenHeader.Flags % 2 = 1
     /\ SeenHeader.ParticleSize.hi = 0
     /\ SeenHeader.ParticleSize.lo > 0
     /\ SeenHeader.ParticleSize.lo % 128 = 0) =>
        LET n == SeenHeader.ParticleSize.lo \div 128 IN
        /\ Len(res.emitters) = n
        /\ pos - ParticleStart = ToInt(SeenHeader.ParticleSize)
        /\ Len(stream) >= ParticleStart + 128 * n
        /\ \A i \in 1..n :
             res.emitters[i] =
               ReadEmitter(SubSeq(stream, ParticleStart + 128 * (i - 1) + 1,
                                          ParticleStart + 128 * i))

\* C13: Decode returns an error whenever the stream ends before the header,
\* before GLBSize bytes of GLB data, or before the ParticleSize bytes of the
\* ParticleSize / 128 declared emitter records; a successful Decode returns
\* GLBSize bytes of GLB and, with has_particles set, ParticleSize / 128 emitters.
C13_TruncationRejected ==
    Returned =>
        /\ Len(stream) < HeaderWireSize => res.err # "nil"
        /\ (/\ Len(stream) >= HeaderWireSize
            /\ LessThan32(Len(stream) - HeaderWireSize, SeenHeader.GLBSize)) =>
                res.err # "nil"
        /\ (/\ Len(stream) >= HeaderWireSize
            /\ ~LessThan32(Len(stream) - HeaderWireSize, SeenHeader.GLBSize)
            /\ SeenHeader.Flags % 2 = 1
            /\ LessThan32(Len(stream) - ParticleStart, SeenHeader.ParticleSize)) =>
                res.err # "nil"
        /\ res.err = "nil" =>
             /\ ~res.glbNil
             /\ Len(res.glb) = ToInt(SeenHeader.GLBSize)
             /\ SeenHeader.Flags % 2 = 1 =>
                  Len(res.emitters) = Div32(SeenHeader.ParticleSize, 128)

\* C14: for every list of files and every value of concurrency, processFiles
\* returns only after every file has been passed to convertToNTSM exactly once,
\* by one worker, and success + failed is the number of files.
C14_EveryFileOnce ==
    ppc = "returned" =>
        /\ \A f \in 1..nfiles : Len(handledBy[f]) = 1
        /\ \A w \in Workers : wpc[w] \in {"none", "done"}
        /\ ret.success + ret.failed = nfiles

====
